---- MODULE Spec2Model ----
(***************************************************************************)
(* Model of src/app.py, the Streamlit interest predictor.                  *)
(*                                                                         *)
(* One process, one browser session.  Every user interaction (page load,   *)
(* slider move, button press) makes Streamlit run main() from top to       *)
(* bottom; such a script run is one atomic action here.  State that        *)
(* survives a run: the st.cache_resource entry of load_model (process      *)
(* wide), st.session_state.gender_sel and the slider's widget value        *)
(* (session wide), and the file model.pkl on disk (environment).           *)
(*                                                                         *)
(* Floats: a class probability p is held as the integer p * ProbDen, and   *)
(* a confidence c (a percentage) as the integer c * ProbDen, so that       *)
(* max(probabilities) * 100 is exact integer arithmetic.                   *)
(***************************************************************************)
EXTENDS Integers, Sequences, FiniteSets, TLC

VARIABLES
    file,         \* model.pkl on disk: "absent", "corrupt" or an artifact name
    cache,        \* st.cache_resource entry of load_model: <<>> or <<entry>>
    joblibLoads,  \* number of joblib.load calls made so far (history)
    firstLoad,    \* what the first execution of load_model's body met (history)
    age,          \* the slider's widget value
    gender_sel,   \* st.session_state.gender_sel, or Unset while the key is absent
    lastPressed,  \* the gender button pressed most recently (history)
    lastRun,      \* what the most recent script run did and rendered
    probe         \* one earlier prediction, kept for comparison (history)

vars == <<file, cache, joblibLoads, firstLoad, age, gender_sel, lastPressed,
          lastRun, probe>>

(***************************************************************************)
(* Program constants and model bounds                                      *)
(***************************************************************************)
min_value == 18
max_value == 80
value == 25
ProbDen == 1000
MaxLoads == 3

SliderRange == min_value..max_value
\* Slider positions the application specification exercises: the ends, the
\* default, and both sides of the sample tree's thresholds.
SampleAges == {min_value, value, 30, 31, 50, 60, 61, max_value}

GenderLabels == {"Female", "Male"}
\* Labels session_state is made to hold when the encoding is exercised alone.
AnyLabels == GenderLabels \cup {"Other", "female", ""}
Unset == "<no key>"

KnownLabels == {"Animation", "Action", "Drama"}

Bump(n) == IF n < MaxLoads THEN n + 1 ELSE n

Max3(p) ==
    LET m12 == IF p[1] >= p[2] THEN p[1] ELSE p[2]
    IN  IF m12 >= p[3] THEN m12 ELSE p[3]

(***************************************************************************)
(* The artifact: what model.pkl deserializes to.  It is external to the    *)
(* program, so a few sample classifiers stand for it.  Each is a           *)
(* deterministic function of the input frame.                              *)
(***************************************************************************)
Artifacts == {"tree", "drifted", "mismatch", "noproba"}
Files == {"absent", "corrupt"} \cup Artifacts

Ok(v) == [ok |-> TRUE, val |-> <<v>>, msg |-> ""]
Raise(m) == [ok |-> FALSE, val |-> <<>>, msg |-> m]

FittedColumns == <<"Age", "Gender">>

\* The leaf of the sample tree an input row falls in.
TreeLeaf(row) ==
    IF row[2] = 0
    THEN IF row[1] <= 30
         THEN [label |-> "Animation", proba |-> <<700, 200, 100>>]
         ELSE [label |-> "Drama", proba |-> <<0, 0, 1000>>]
    ELSE IF row[1] <= 60
         THEN [label |-> "Action", proba |-> <<100, 850, 50>>]
         ELSE [label |-> "Drama", proba |-> <<250, 250, 500>>]

\* model.predict(input_data)[0]
ArtifactPredict(clf, X) ==
    IF clf = "mismatch" \/ X.columns # FittedColumns
    THEN Raise("ValueError: feature names mismatch")
    ELSE IF clf = "drifted" /\ X.row[2] = 1
    THEN Ok("Comedy")
    ELSE Ok(TreeLeaf(X.row).label)

\* model.predict_proba(input_data)[0]
ArtifactPredictProba(clf, X) ==
    IF clf = "mismatch" \/ X.columns # FittedColumns
    THEN Raise("ValueError: feature names mismatch")
    ELSE IF clf = "noproba"
    THEN Raise("AttributeError: predict_proba")
    ELSE IF clf = "drifted" /\ X.row[2] = 1
    THEN Ok(<<334, 333, 333>>)
    ELSE Ok(TreeLeaf(X.row).proba)

(***************************************************************************)
(* load_model                                                              *)
(***************************************************************************)
NoneV == [kind |-> "None", clf |-> "", id |-> 0]
Handle(f, n) == [kind |-> "model", clf |-> f, id |-> n]
NotCached == <<>>

UnpickleCause == "UnpicklingError: invalid load key"

FileClass(f) == IF f \in Artifacts THEN "ok" ELSE f

\* The body of load_model: what it returns, the st.error elements it emits,
\* and the number of joblib.load calls made once it has run.
LoadModelBody(f, n) ==
    IF f = "absent"
    THEN [ret |-> NoneV, messages |-> <<>>, reads |-> n]
    ELSE IF f = "corrupt"
    THEN [ret |-> NoneV,
          messages |-> << <<"Error loading model: ", UnpickleCause>> >>,
          reads |-> Bump(n)]
    ELSE [ret |-> Handle(f, Bump(n)), messages |-> <<>>, reads |-> Bump(n)]

\* The body runs on every call and its result replaces the entry.
load_model_uncached(c, f, n) ==
    LET r == LoadModelBody(f, n)
        e == [ret |-> r.ret, messages |-> r.messages]
    IN  [entry |-> e, cache |-> <<e>>, reads |-> r.reads, computed |-> TRUE]

\* load_model as decorated by st.cache_resource: the body runs on a miss and
\* its return value (None included) and emitted elements are stored; a hit
\* returns the stored object and replays the stored elements.
load_model(c, f, n) ==
    IF c # NotCached
    THEN [entry |-> c[1], cache |-> c, reads |-> n, computed |-> FALSE]
    ELSE LET r == LoadModelBody(f, n)
             e == [ret |-> r.ret, messages |-> r.messages]
         IN  [entry |-> e, cache |-> <<e>>, reads |-> r.reads, computed |-> TRUE]

(***************************************************************************)
(* main: the gender selection, the encoding and the prediction block       *)
(***************************************************************************)
\* The default is written whenever no button is pressed, not only while the
\* key is absent.
SelectGenderResetting(g, female_selected, male_selected) ==
    IF female_selected THEN "Female"
    ELSE IF male_selected THEN "Male"
    ELSE "Female"

\* st.session_state.gender_sel after the "Determine selected gender" lines.
SelectGender(g, female_selected, male_selected) ==
    LET d == IF g = Unset THEN "Female" ELSE g
    IN  IF female_selected THEN "Female"
        ELSE IF male_selected THEN "Male"
        ELSE d

\* The two branches exchanged.
gender_encoded_swapped(g) == IF g = "Female" THEN 1 ELSE 0

\* Only the label "Male" encodes as 1.
gender_encoded_male_only(g) == IF g = "Male" THEN 1 ELSE 0

\* gender_encoded = 0 if st.session_state.gender_sel == "Female" else 1
gender_encoded(g) == IF g = "Female" THEN 0 ELSE 1

\* input_data = pd.DataFrame({'Age': [age], 'Gender': [gender_encoded]})
InputData(a, g) ==
    [columns |-> <<"Age", "Gender">>, row |-> <<a, gender_encoded(g)>>]

\* The first entry of the vector instead of its maximum.
ConfidenceFirst(probabilities) == probabilities[1] * 100

\* confidence = max(probabilities) * 100
Confidence(probabilities) == Max3(probabilities) * 100

\* Glyphs are named: clapper, collision, masks and dart stand for the four
\* emoji of the source.
emoji_map ==
    [l \in KnownLabels |->
        CASE l = "Animation" -> "clapper"
          [] l = "Action" -> "collision"
          [] l = "Drama" -> "masks"]

\* emoji_map[prediction]: a label that is no key raises KeyError.
emoji_index(prediction) ==
    IF prediction \in DOMAIN emoji_map
    THEN Ok(emoji_map[prediction])
    ELSE Raise("KeyError")

\* emoji_map.get(prediction, dart)
emoji_get(prediction) ==
    IF prediction \in DOMAIN emoji_map
    THEN Ok(emoji_map[prediction])
    ELSE Ok("dart")

NoTry ==
    [raised |-> FALSE, msg |-> "", predictCalls |-> 0, probaCalls |-> 0,
     predicted |-> <<>>, probabilities |-> <<>>, card |-> <<>>]

\* The statements inside the try: the two artifact calls, the confidence,
\* the glyph lookup and the result card.  The first statement that raises
\* ends it.
TryBody(clf, X) ==
    LET p == ArtifactPredict(clf, X)
        q == ArtifactPredictProba(clf, X)
    IN  IF ~p.ok
        THEN [NoTry EXCEPT !.raised = TRUE, !.msg = p.msg, !.predictCalls = 1]
        ELSE IF ~q.ok
        THEN [NoTry EXCEPT !.raised = TRUE, !.msg = q.msg, !.predictCalls = 1,
                           !.probaCalls = 1, !.predicted = p.val]
        ELSE LET prediction == p.val[1]
                 confidence == Confidence(q.val[1])
                 e == emoji_get(prediction)
             IN  IF ~e.ok
                 THEN [NoTry EXCEPT !.raised = TRUE, !.msg = e.msg,
                                    !.predictCalls = 1, !.probaCalls = 1,
                                    !.predicted = p.val,
                                    !.probabilities = q.val]
                 ELSE [NoTry EXCEPT !.predictCalls = 1, !.probaCalls = 1,
                                    !.predicted = p.val,
                                    !.probabilities = q.val,
                                    !.card = <<[emoji |-> e.val[1],
                                                prediction |-> prediction,
                                                confidence |-> confidence,
                                                probabilities |-> q.val[1]]>>]

\* No except clause: an exception leaves main, and the run ends there.
PredictionBlockNoCatch(clf, X) ==
    LET t == TryBody(clf, X)
    IN  [try |-> t, error |-> <<>>, completed |-> ~t.raised]

\* try: ... except Exception as e: st.error(...).  The run goes on after it.
PredictionBlock(clf, X) ==
    LET t == TryBody(clf, X)
    IN  [try |-> t,
         error |-> IF t.raised
                   THEN << <<"Error making prediction: ", t.msg>> >>
                   ELSE <<>>,
         completed |-> TRUE]

NoBlock == [try |-> NoTry, error |-> <<>>, completed |-> TRUE]

(***************************************************************************)
(* One script run of main()                                                *)
(***************************************************************************)
NoRun ==
    [kind |-> "none", disk |-> "", model |-> NoneV, loadMsgs |-> <<>>,
     widgets |-> FALSE,
     age |-> 0, selected |-> <<>>, predictPressed |-> FALSE,
     input_data |-> <<>>, block |-> NoBlock, footer |-> FALSE]

\* What the run renders and does, given the handle load_model returned, the
\* elements load_model emitted, the slider value, the selection after the
\* "Determine selected gender" lines and the state of the Predict button.
\* disk notes what was on disk during the run (history).
RunRecord(model, msgs, a, g, predict_clicked) ==
    IF model = NoneV
    THEN \* "Model not found" is rendered and main returns.
         [NoRun EXCEPT !.kind = "not_found", !.disk = file, !.loadMsgs = msgs]
    ELSE LET X == InputData(a, g)
             b == IF predict_clicked THEN PredictionBlock(model.clf, X)
                  ELSE NoBlock
         IN  [kind |-> "form", disk |-> file, model |-> model,
              loadMsgs |-> msgs,
              widgets |-> TRUE, age |-> a, selected |-> <<g>>,
              predictPressed |-> predict_clicked,
              input_data |-> IF predict_clicked THEN <<X>> ELSE <<>>,
              block |-> b, footer |-> b.completed]

\* The history variable probe: a run that shows a result card may be kept
\* (keep); every other run marks a kept one as no longer fresh, and notes
\* whether a request with another input, or none, came in between.
ProbeAfter(r, keep) ==
    IF probe = <<>>
    THEN IF keep /\ r.block.try.card # <<>>
         THEN <<[age |-> r.age, gender |-> r.selected[1],
                 card |-> r.block.try.card[1], fresh |-> TRUE,
                 between |-> FALSE]>>
         ELSE <<>>
    ELSE <<[probe[1] EXCEPT
              !.fresh = FALSE,
              !.between = @ \/ ~r.predictPressed
                            \/ r.age # probe[1].age
                            \/ r.selected # <<probe[1].gender>>]>>

\* main(), the slider at a, with the given button states.
Main(a, female_selected, male_selected, predict_clicked, keep) ==
    LET l == load_model(cache, file, joblibLoads)
        model == l.entry.ret
        g == IF model = NoneV THEN gender_sel
             ELSE SelectGender(gender_sel, female_selected, male_selected)
        r == RunRecord(model, l.entry.messages, a, g, predict_clicked)
    IN  /\ cache' = l.cache
        /\ joblibLoads' = l.reads
        /\ firstLoad' = IF l.computed /\ firstLoad = "none"
                        THEN FileClass(file) ELSE firstLoad
        /\ gender_sel' = g
        /\ lastRun' = r
        /\ probe' = ProbeAfter(r, keep)
        /\ age' = a
        /\ UNCHANGED file

(***************************************************************************)
(* Actions: what the user and the environment do                           *)
(***************************************************************************)
\* The page is opened or rerun with no widget touched.
Rerun ==
    /\ Main(age, FALSE, FALSE, FALSE, FALSE)
    /\ UNCHANGED lastPressed

\* The slider is moved to one of the positions S; widgets exist only after
\* a run that rendered them.
SliderMove(S) ==
    /\ lastRun.widgets
    /\ \E a \in S \ {age} : Main(a, FALSE, FALSE, FALSE, FALSE)
    /\ UNCHANGED lastPressed

PressFemale ==
    /\ lastRun.widgets
    /\ Main(age, TRUE, FALSE, FALSE, FALSE)
    /\ lastPressed' = "Female"

PressMale ==
    /\ lastRun.widgets
    /\ Main(age, FALSE, TRUE, FALSE, FALSE)
    /\ lastPressed' = "Male"

PredictRun ==
    /\ \E keep \in BOOLEAN : Main(age, FALSE, FALSE, TRUE, keep)
    /\ UNCHANGED lastPressed

PressPredict ==
    /\ lastRun.widgets
    /\ PredictRun

\* The operator replaces, removes or damages model.pkl.
FileChange ==
    /\ \E f \in Files \ {file} : file' = f
    /\ UNCHANGED <<cache, joblibLoads, firstLoad, age, gender_sel,
                   lastPressed, lastRun, probe>>

Init ==
    /\ file \in Files
    /\ cache = NotCached
    /\ joblibLoads = 0
    /\ firstLoad = "none"
    /\ age = value
    /\ gender_sel = Unset
    /\ lastPressed = "none"
    /\ lastRun = NoRun
    /\ probe = <<>>

Next ==
    \/ Rerun
    \/ SliderMove(SampleAges)
    \/ PressFemale
    \/ PressMale
    \/ PressPredict
    \/ FileChange

Spec == Init /\ [][Next]_vars

\* The encoding exercised alone: the slider at any position of its range,
\* session_state holding any label, and the Predict button pressed.
InitEncode ==
    /\ file \in Artifacts
    /\ cache = NotCached
    /\ joblibLoads = 0
    /\ firstLoad = "none"
    /\ age \in SliderRange
    /\ gender_sel \in AnyLabels
    /\ lastPressed = "none"
    /\ lastRun = NoRun
    /\ probe = <<>>

NextEncode == PredictRun

SpecEncode == InitEncode /\ [][NextEncode]_vars

(***************************************************************************)
(* Properties                                                              *)
(***************************************************************************)
Try == lastRun.block.try
Card == Try.card[1]
Loaded == cache # NotCached /\ cache[1].ret # NoneV

\* C1: for every age of the slider's range and each of the labels Female and
\* Male, the frame built at a Predict press has the columns (Age, Gender) in
\* that order, Age the slider's value unchanged, and Gender 0 for Female and
\* 1 for Male.
C1_FeatureVector ==
    (lastRun.predictPressed /\ gender_sel \in GenderLabels) =>
        /\ age \in SliderRange
        /\ Len(lastRun.input_data) = 1
        /\ lastRun.input_data[1].columns = <<"Age", "Gender">>
        /\ lastRun.input_data[1].row[1] = age
        /\ gender_sel = "Female" => lastRun.input_data[1].row[2] = 0
        /\ gender_sel = "Male" => lastRun.input_data[1].row[2] = 1

C1_Witness ==
    /\ lastRun.predictPressed
    /\ gender_sel = "Male"
    /\ age = max_value
    /\ lastRun.input_data = <<[columns |-> <<"Age", "Gender">>,
                               row |-> <<max_value, 1>>]>>

C3_AbsentNeverPredicts ==
    firstLoad = "absent" =>
        /\ cache = <<[ret |-> NoneV, messages |-> <<>>]>>
        /\ lastRun.kind = "not_found"
        /\ lastRun.model = NoneV
        /\ lastRun.loadMsgs = <<>>
        /\ Try.predictCalls = 0
        /\ Try.probaCalls = 0
        /\ lastRun.block.completed

C3_Witness ==
    /\ firstLoad = "absent"
    /\ lastRun.kind = "not_found"
    /\ lastRun.disk \in Artifacts

\* C4 as claimed: when load_model has met a file that cannot be deserialized,
\* the run reports the load error with its cause, and load_model's return
\* value differs from the one it gives for an absent file (None), so that
\* main can tell the two apart.
C4_CorruptDistinguishable ==
    (firstLoad = "corrupt" /\ lastRun.kind # "none") =>
        /\ lastRun.loadMsgs = << <<"Error loading model: ", UnpickleCause>> >>
        /\ lastRun.model # LoadModelBody("absent", 0).ret
        /\ lastRun.kind # "not_found"

\* C5: joblib.load is called at most once in the process; once a handle is
\* cached, no step replaces the entry or reads the file again, and every run
\* is served that one instance, whatever is on disk.
C5_LoadOnce ==
    /\ [](joblibLoads <= 1)
    /\ [](lastRun.kind = "form" => Loaded /\ lastRun.model = cache[1].ret)
    /\ [][Loaded => cache' = cache /\ joblibLoads' = joblibLoads]_vars

C5_Witness ==
    /\ Loaded
    /\ joblibLoads = 1
    /\ lastRun.kind = "form"
    /\ lastRun.disk \in Artifacts
    /\ lastRun.disk # lastRun.model.clf

\* C6: the confidence of a result card is one of the entries of the
\* probability vector times 100, no smaller than any entry times 100, and
\* within 0..100 percent.
C6_Confidence ==
    Try.card # <<>> =>
        /\ Card.probabilities = Try.probabilities[1]
        /\ \E i \in 1..3 : Card.confidence = Card.probabilities[i] * 100
        /\ \A i \in 1..3 : Card.confidence >= Card.probabilities[i] * 100
        /\ Card.confidence >= 0
        /\ Card.confidence <= 100 * ProbDen

C6_Witness ==
    /\ Try.card # <<>>
    /\ lastRun.input_data[1].row = <<50, 1>>
    /\ Card.probabilities = <<100, 850, 50>>
    /\ Card.prediction = "Action"
    /\ Card.confidence = 85 * ProbDen

C8_PredictionErrorCaught ==
    Try.raised =>
        /\ Try.msg # ""
        /\ lastRun.block.error = << <<"Error making prediction: ", Try.msg>> >>
        /\ Try.card = <<>>
        /\ Try.predictCalls = 1
        /\ Try.probaCalls <= 1
        /\ lastRun.block.completed
        /\ lastRun.footer
        /\ lastRun.widgets

C8_Witness ==
    /\ Try.raised
    /\ Try.predictCalls = 1
    /\ Try.probaCalls = 0
    /\ lastRun.block.error # <<>>

\* C9: a result card shown for the same (age, gender) as an earlier card of
\* the process carries the same label and the same confidence.
C9_SameInputSameResult ==
    (/\ probe # <<>>
     /\ Try.card # <<>>
     /\ lastRun.age = probe[1].age
     /\ lastRun.selected = <<probe[1].gender>>) =>
        /\ Card.prediction = probe[1].card.prediction
        /\ Card.confidence = probe[1].card.confidence

C9_Witness ==
    /\ probe # <<>>
    /\ ~probe[1].fresh
    /\ probe[1].between
    /\ Try.card # <<>>
    /\ lastRun.age = probe[1].age
    /\ lastRun.selected = <<probe[1].gender>>
    /\ lastRun.disk # lastRun.model.clf

\* The selection the buttons pressed so far call for.
Chosen == IF lastPressed = "none" THEN "Female" ELSE lastPressed

\* C10: the stored selection, once the key exists (from the first run that
\* renders the form), is Female or Male and is that of the gender button
\* pressed most recently, Female if none was; a Predict press encodes that
\* selection; a step in which no gender button is pressed leaves a stored
\* selection as it is.
C10_GenderSelection ==
    /\ [](/\ gender_sel \in GenderLabels \cup {Unset}
          /\ lastRun.widgets => gender_sel \in GenderLabels
          /\ gender_sel # Unset => gender_sel = Chosen
          /\ lastRun.predictPressed =>
                /\ lastRun.selected = <<Chosen>>
                /\ lastRun.input_data[1].row[2] =
                       (IF Chosen = "Female" THEN 0 ELSE 1))
    /\ [][(lastPressed' = lastPressed /\ gender_sel # Unset)
             => gender_sel' = gender_sel]_vars

C10_Witness ==
    /\ lastPressed = "Male"
    /\ gender_sel = "Male"
    /\ lastRun.predictPressed
    /\ lastRun.input_data[1].row[2] = 1

====
